---- MODULE Spec2Model ----
(***************************************************************************)
(* State-machine model of the water pump temperature analysis pipeline:    *)
(* WaterPumpAnalyzer (water_pump_analyzer.py) and the run aggregator       *)
(* WaterPumpChatbot.analyze_data (chatbot_implementation.py).              *)
(*                                                                         *)
(* Numbers.  The source computes in float64.  The model computes in exact  *)
(* rational arithmetic over integer sample values: a number is a record    *)
(* [n |-> numerator, d |-> denominator > 0] in lowest terms.  The standard *)
(* deviation is irrational in general, so the statistics carry its square  *)
(* (field std_sq); every comparison std < c of the source, with c >= 0, is *)
(* made as std_sq < c*c, which is the same comparison because std >= 0.    *)
(*                                                                         *)
(* Category strings.  The source spells the categories in Korean; the      *)
(* model uses the names of the specification's enumerations:               *)
(*   alert      Normal Watch Caution Critical                              *)
(*   trend      Rising Falling Plateau Insufficient                        *)
(*   stability  VeryStable Stable Moderate Unstable                        *)
(*   label      Low Normal High Overheat / Stable Moderate Unstable /      *)
(*              Constant Variable Volatile                                 *)
(***************************************************************************)
EXTENDS Integers, Sequences, FiniteSets, TLC

VARIABLES data, analyzed_data, op, raised, chatbot_data, analysis_cache, arg, out,
          json_file, llm_chatbot, dashboard, data_loaded

vars == <<data, analyzed_data, op, raised, chatbot_data, analysis_cache, arg, out,
          json_file, llm_chatbot, dashboard, data_loaded>>

(***************************************************************************)
(* Bounds of the model.                                                    *)
(***************************************************************************)
MaxSamples == 3
MaxWindow == 3
MaxBatches == 2
MaxBatchLen == 4

\* Sample values fed to the analyzer (degrees Celsius).
Values == {60, 95}

(***************************************************************************)
(* Exact rational arithmetic.                                              *)
(***************************************************************************)
Abs(x) == IF x < 0 THEN -x ELSE x

RECURSIVE Gcd(_, _)
Gcd(a, b) == IF b = 0 THEN a ELSE Gcd(b, a % b)

Rat(n, d) ==
    LET g == Gcd(Abs(n), Abs(d))
        s == IF d < 0 THEN -1 ELSE 1
    IN  [n |-> (s * n) \div g, d |-> (s * d) \div g]

Int2Rat(i) == [n |-> i, d |-> 1]

RatAdd(a, b) ==
    LET g == Gcd(a.d, b.d)
    IN  Rat(a.n * (b.d \div g) + b.n * (a.d \div g), (a.d \div g) * b.d)

RatSub(a, b) == RatAdd(a, [n |-> -b.n, d |-> b.d])

RatMul(a, b) ==
    LET g1 == Gcd(Abs(a.n), b.d)
        g2 == Gcd(Abs(b.n), a.d)
        h1 == IF g1 = 0 THEN 1 ELSE g1
        h2 == IF g2 = 0 THEN 1 ELSE g2
    IN  Rat((a.n \div h1) * (b.n \div h2), (a.d \div h2) * (b.d \div h1))

RatDivInt(a, k) == RatMul(a, Rat(1, k))

RatLt(a, b) ==
    LET g == Gcd(a.d, b.d)
    IN  a.n * (b.d \div g) < b.n * (a.d \div g)

RatLe(a, b) == ~RatLt(b, a)

\* a < c and a > c for an integer threshold c.
LtInt(a, c) == RatLt(a, Int2Rat(c))
GtInt(a, c) == RatLt(Int2Rat(c), a)

(***************************************************************************)
(* Sequences.                                                              *)
(***************************************************************************)
RECURSIVE SumSeq(_)
SumSeq(s) == IF s = <<>> THEN 0 ELSE Head(s) + SumSeq(Tail(s))

RECURSIVE RatSumSeq(_)
RatSumSeq(s) == IF s = <<>> THEN Int2Rat(0) ELSE RatAdd(Head(s), RatSumSeq(Tail(s)))

RECURSIVE Insert(_, _)
Insert(x, s) ==
    IF s = <<>> THEN <<x>>
    ELSE IF x <= Head(s) THEN <<x>> \o s
    ELSE <<Head(s)>> \o Insert(x, Tail(s))

RECURSIVE np_sort(_)
np_sort(s) == IF s = <<>> THEN <<>> ELSE Insert(Head(s), np_sort(Tail(s)))

SeqsUpTo(S, k) == UNION {[1..m -> S] : m \in 0..k}

(***************************************************************************)
(* numpy reductions over a window's values (a non-empty sequence of        *)
(* integers), in exact arithmetic.                                         *)
(***************************************************************************)
np_mean(values) == Rat(SumSeq(values), Len(values))

np_median(values) ==
    LET s == np_sort(values)
        k == Len(values)
    IN  IF k % 2 = 1 THEN Int2Rat(s[(k + 1) \div 2])
        ELSE Rat(s[k \div 2] + s[k \div 2 + 1], 2)

\* np.std squared: mean(abs(x - mean) ** 2), divisor N (ddof = 0).
np_std_sq(values) ==
    LET m == np_mean(values)
        dev(i) == RatSub(Int2Rat(values[i]), m)
        sq == [i \in 1..Len(values) |-> RatMul(dev(i), dev(i))]
    IN  RatDivInt(RatSumSeq(sq), Len(values))

\* Mutant of np_min: the first value of the window instead of the least.
np_min_first(values) == values[1]

RECURSIVE np_min(_)
np_min(values) ==
    IF Len(values) = 1 THEN values[1]
    ELSE LET r == np_min(Tail(values))
         IN  IF Head(values) < r THEN Head(values) ELSE r

\* Mutant of np_max: the running maximum starts at 0.
RECURSIVE np_max_from_zero(_)
np_max_from_zero(values) ==
    IF values = <<>> THEN 0
    ELSE LET r == np_max_from_zero(Tail(values))
         IN  IF Head(values) > r THEN Head(values) ELSE r

RECURSIVE np_max(_)
np_max(values) ==
    IF Len(values) = 1 THEN values[1]
    ELSE LET r == np_max(Tail(values))
         IN  IF Head(values) > r THEN Head(values) ELSE r

\* Mutant of Statistics: range is taken from the mean to the max.
Statistics_range_from_mean(temp_values) ==
    [mean   |-> np_mean(temp_values),
     median |-> np_median(temp_values),
     std_sq |-> np_std_sq(temp_values),
     min    |-> Int2Rat(np_min(temp_values)),
     max    |-> Int2Rat(np_max(temp_values)),
     range  |-> RatSub(Int2Rat(np_max(temp_values)), np_mean(temp_values))]

\* The 'statistics' dictionary of one batch.
Statistics(temp_values) ==
    [mean   |-> np_mean(temp_values),
     median |-> np_median(temp_values),
     std_sq |-> np_std_sq(temp_values),
     min    |-> Int2Rat(np_min(temp_values)),
     max    |-> Int2Rat(np_max(temp_values)),
     range  |-> Int2Rat(np_max(temp_values) - np_min(temp_values))]

\* A statistics dictionary of zeros, the placeholder where none was computed.
NoStats == [mean |-> Int2Rat(0), median |-> Int2Rat(0), std_sq |-> Int2Rat(0),
            min |-> Int2Rat(0), max |-> Int2Rat(0), range |-> Int2Rat(0)]

(***************************************************************************)
(* The classifiers of WaterPumpAnalyzer.                                   *)
(***************************************************************************)
\* Mutant of _generate_temperature_label: the band limits are inclusive.
_generate_temperature_label_le(st) ==
    LET temp_category ==
            IF ~GtInt(st.mean, 40) THEN "Low"
            ELSE IF ~GtInt(st.mean, 70) THEN "Normal"
            ELSE IF ~GtInt(st.mean, 85) THEN "High"
            ELSE "Overheat"
        stability ==
            IF ~GtInt(st.std_sq, 2 * 2) THEN "Stable"
            ELSE IF ~GtInt(st.std_sq, 5 * 5) THEN "Moderate"
            ELSE "Unstable"
        range_category ==
            IF ~GtInt(st.range, 5) THEN "Constant"
            ELSE IF ~GtInt(st.range, 15) THEN "Variable"
            ELSE "Volatile"
    IN  temp_category \o "_" \o stability \o "_" \o range_category

_generate_temperature_label(st) ==
    LET mean_temp == st.mean
        temp_range == st.range
        temp_category ==
            IF LtInt(mean_temp, 40) THEN "Low"
            ELSE IF LtInt(mean_temp, 70) THEN "Normal"
            ELSE IF LtInt(mean_temp, 85) THEN "High"
            ELSE "Overheat"
        stability ==
            IF LtInt(st.std_sq, 2 * 2) THEN "Stable"
            ELSE IF LtInt(st.std_sq, 5 * 5) THEN "Moderate"
            ELSE "Unstable"
        range_category ==
            IF LtInt(temp_range, 5) THEN "Constant"
            ELSE IF LtInt(temp_range, 15) THEN "Variable"
            ELSE "Volatile"
    IN  temp_category \o "_" \o stability \o "_" \o range_category

\* np.polyfit(x, values, 1)[0] for x = 0..k-1, k >= 2: the least-squares slope.
polyfit_slope(values) ==
    LET k == Len(values)
        x == [i \in 1..k |-> i - 1]
        sx == SumSeq(x)
        sy == SumSeq(values)
        sxy == SumSeq([i \in 1..k |-> x[i] * values[i]])
        sxx == SumSeq([i \in 1..k |-> x[i] * x[i]])
    IN  Rat(k * sxy - sx * sy, k * sxx - sx * sx)

\* Mutant of _analyze_trend: the Falling threshold alone is not strict.
_analyze_trend_falling_le(values) ==
    IF Len(values) < 2 THEN "Insufficient"
    ELSE LET slope == polyfit_slope(values)
         IN  IF RatLt(Rat(1, 10), slope) THEN "Rising"
             ELSE IF RatLe(slope, Rat(-1, 10)) THEN "Falling"
             ELSE "Plateau"

\* Mutant of _analyze_trend: the slope thresholds are not strict.
_analyze_trend_ge(values) ==
    IF Len(values) < 2 THEN "Insufficient"
    ELSE LET slope == polyfit_slope(values)
         IN  IF RatLe(Rat(1, 10), slope) THEN "Rising"
             ELSE IF RatLe(slope, Rat(-1, 10)) THEN "Falling"
             ELSE "Plateau"

_analyze_trend(values) ==
    IF Len(values) < 2 THEN "Insufficient"
    ELSE LET slope == polyfit_slope(values)
         IN  IF RatLt(Rat(1, 10), slope) THEN "Rising"
             ELSE IF RatLt(slope, Rat(-1, 10)) THEN "Falling"
             ELSE "Plateau"

\* cv squared: (std / mean) ** 2 when mean > 0, else 0.
cv_sq(st) ==
    IF GtInt(st.mean, 0)
    THEN RatMul(st.std_sq, Rat(st.mean.d * st.mean.d, st.mean.n * st.mean.n))
    ELSE Int2Rat(0)

\* Mutant of _analyze_stability: the band limits are inclusive.
_analyze_stability_le(st) ==
    LET cv2 == cv_sq(st)
    IN  IF RatLe(cv2, Rat(5 * 5, 100 * 100)) THEN "VeryStable"
        ELSE IF RatLe(cv2, Rat(1 * 1, 10 * 10)) THEN "Stable"
        ELSE IF RatLe(cv2, Rat(2 * 2, 10 * 10)) THEN "Moderate"
        ELSE "Unstable"

_analyze_stability(st) ==
    LET cv2 == cv_sq(st)
    IN  IF RatLt(cv2, Rat(5 * 5, 100 * 100)) THEN "VeryStable"
        ELSE IF RatLt(cv2, Rat(1 * 1, 10 * 10)) THEN "Stable"
        ELSE IF RatLt(cv2, Rat(2 * 2, 10 * 10)) THEN "Moderate"
        ELSE "Unstable"

\* Mutant of _determine_alert_level: the peak thresholds are not strict.
_determine_alert_level_ge(st) ==
    LET mean_temp == st.mean
        max_temp == st.max
    IN  IF ~LtInt(max_temp, 90) \/ GtInt(mean_temp, 85) THEN "Critical"
        ELSE IF ~LtInt(max_temp, 80) \/ GtInt(mean_temp, 75) THEN "Caution"
        ELSE IF ~LtInt(max_temp, 70) \/ GtInt(mean_temp, 65) THEN "Watch"
        ELSE "Normal"

\* Mutant of _determine_alert_level: the Watch test reads mean < 65.
_determine_alert_level_lt(st) ==
    LET mean_temp == st.mean
        max_temp == st.max
    IN  IF GtInt(max_temp, 90) \/ GtInt(mean_temp, 85) THEN "Critical"
        ELSE IF GtInt(max_temp, 80) \/ GtInt(mean_temp, 75) THEN "Caution"
        ELSE IF GtInt(max_temp, 70) \/ LtInt(mean_temp, 65) THEN "Watch"
        ELSE "Normal"

\* Mutant of _determine_alert_level: the Watch test comes before the Caution test.
_determine_alert_level_watch_first(st) ==
    LET mean_temp == st.mean
        max_temp == st.max
    IN  IF GtInt(max_temp, 90) \/ GtInt(mean_temp, 85) THEN "Critical"
        ELSE IF GtInt(max_temp, 70) \/ GtInt(mean_temp, 65) THEN "Watch"
        ELSE IF GtInt(max_temp, 80) \/ GtInt(mean_temp, 75) THEN "Caution"
        ELSE "Normal"

_determine_alert_level(st) ==
    LET mean_temp == st.mean
        max_temp == st.max
    IN  IF GtInt(max_temp, 90) \/ GtInt(mean_temp, 85) THEN "Critical"
        ELSE IF GtInt(max_temp, 80) \/ GtInt(mean_temp, 75) THEN "Caution"
        ELSE IF GtInt(max_temp, 70) \/ GtInt(mean_temp, 65) THEN "Watch"
        ELSE "Normal"

(***************************************************************************)
(* WaterPumpAnalyzer.analyze_temperature_characteristics                   *)
(***************************************************************************)
\* Timestamp.isoformat(): the ISO-8601 string of an instant.
isoformat(t) == <<"iso", t>>

\* Mutant of iloc: the slice runs one row into the next window.
iloc_overlap(rows, i, j) ==
    SubSeq(rows, i + 1, IF j + 1 < Len(rows) THEN j + 1 ELSE Len(rows))

\* self.data.iloc[i:i+window_size] (0-based i, end clipped to the length).
iloc(rows, i, j) == SubSeq(rows, i + 1, IF j < Len(rows) THEN j ELSE Len(rows))

\* Mutant of batch_id: ids counted from 0.
batch_id_from_zero(i, window_size) == i \div window_size

\* 'batch_id': i // window_size + 1
batch_id(i, window_size) == i \div window_size + 1

\* The body of the loop for one window starting at 0-based row i.
\* Mutant of AnalyzeWindow: end_timestamp is read from the first row.
AnalyzeWindow_end_first(window_data, i, window_size) ==
    LET temp_values == [k \in 1..Len(window_data) |-> window_data[k].value]
        st == Statistics(temp_values)
    IN  [batch_id        |-> batch_id(i, window_size),
         start_timestamp |-> isoformat(window_data[1].timestamp),
         end_timestamp   |-> isoformat(window_data[1].timestamp),
         record_count    |-> Len(window_data),
         statistics      |-> st,
         raw_data        |-> [k \in 1..Len(window_data) |->
                                 [timestamp |-> isoformat(window_data[k].timestamp),
                                  value     |-> window_data[k].value]],
         value_label     |-> _generate_temperature_label(st),
         trend           |-> _analyze_trend(temp_values),
         stability       |-> _analyze_stability(st),
         alert_level     |-> _determine_alert_level(st)]

AnalyzeWindow(window_data, i, window_size) ==
    LET temp_values == [k \in 1..Len(window_data) |-> window_data[k].value]
        st == Statistics(temp_values)
    IN  [batch_id        |-> batch_id(i, window_size),
         start_timestamp |-> isoformat(window_data[1].timestamp),
         end_timestamp   |-> isoformat(window_data[Len(window_data)].timestamp),
         record_count    |-> Len(window_data),
         statistics      |-> st,
         raw_data        |-> [k \in 1..Len(window_data) |->
                                 [timestamp |-> isoformat(window_data[k].timestamp),
                                  value     |-> window_data[k].value]],
         value_label     |-> _generate_temperature_label(st),
         trend           |-> _analyze_trend(temp_values),
         stability       |-> _analyze_stability(st),
         alert_level     |-> _determine_alert_level(st)]

\* Mutant of range_: only the starts of full windows.
range_full_windows(stop, step) ==
    [k \in 1..(stop \div step) |-> (k - 1) * step]

\* range(0, stop, step) for step > 0, as the sequence of its values.
range_(stop, step) ==
    [k \in 1..((stop + step - 1) \div step) |-> (k - 1) * step]

\* for i in range(0, len(self.data), window_size): ... append(analysis)
\* Mutant of AnalyzeLoop: a window runs from the first sample to the end of
\* the batch, so a batch sees the samples of the batches before it.
RECURSIVE AnalyzeLoop_cumulative(_, _, _)
AnalyzeLoop_cumulative(rows, idx, window_size) ==
    IF idx = <<>> THEN <<>>
    ELSE LET i == Head(idx)
             window_data == iloc(rows, 0, i + window_size)
         IN  IF Len(window_data) = 0
             THEN AnalyzeLoop_cumulative(rows, Tail(idx), window_size)
             ELSE <<AnalyzeWindow(window_data, i, window_size)>>
                  \o AnalyzeLoop_cumulative(rows, Tail(idx), window_size)

RECURSIVE AnalyzeLoop(_, _, _)
AnalyzeLoop(rows, idx, window_size) ==
    IF idx = <<>> THEN <<>>
    ELSE LET i == Head(idx)
             window_data == iloc(rows, i, i + window_size)
         IN  IF Len(window_data) = 0
             THEN AnalyzeLoop(rows, Tail(idx), window_size)
             ELSE <<AnalyzeWindow(window_data, i, window_size)>>
                  \o AnalyzeLoop(rows, Tail(idx), window_size)

\* The call itself: self.analyzed_data = [] comes first, then len(self.data)
\* (TypeError when self.data is None), then range() (ValueError when the step
\* is 0, empty when the step is negative), then the loop.
\* Mutant of analyze_temperature_characteristics: empty data is an error.
analyze_temperature_characteristics_nonempty(d, window_size) ==
    IF d.is_none THEN [analyzed_data |-> <<>>, raised |-> "TypeError"]
    ELSE IF window_size = 0 \/ d.rows = <<>>
         THEN [analyzed_data |-> <<>>, raised |-> "ValueError"]
    ELSE IF window_size < 0 THEN [analyzed_data |-> <<>>, raised |-> "none"]
    ELSE [analyzed_data |-> AnalyzeLoop(d.rows, range_(Len(d.rows), window_size), window_size),
          raised |-> "none"]

\* Mutant of analyze_temperature_characteristics: a window_size below 1 is
\* taken as 1.
analyze_temperature_characteristics_clamped(d, window_size) ==
    IF d.is_none THEN [analyzed_data |-> <<>>, raised |-> "TypeError"]
    ELSE LET w == IF window_size < 1 THEN 1 ELSE window_size
         IN  [analyzed_data |-> AnalyzeLoop(d.rows, range_(Len(d.rows), w), w),
              raised |-> "none"]

analyze_temperature_characteristics(d, window_size) ==
    IF d.is_none THEN [analyzed_data |-> <<>>, raised |-> "TypeError"]
    ELSE IF window_size = 0 THEN [analyzed_data |-> <<>>, raised |-> "ValueError"]
    ELSE IF window_size < 0 THEN [analyzed_data |-> <<>>, raised |-> "none"]
    ELSE [analyzed_data |-> AnalyzeLoop(d.rows, range_(Len(d.rows), window_size), window_size),
          raised |-> "none"]

(***************************************************************************)
(* WaterPumpAnalyzer.load_data                                             *)
(*                                                                         *)
(* A raw row is [timestamp |-> c, value |-> c'] where a cell is <<x>> for  *)
(* a cell that converts to the number x and <<>> for one that pd.to_datetime*)
(* / pd.to_numeric(errors='coerce') leave missing (NaT / NaN).             *)
(***************************************************************************)
NoneData == [is_none |-> TRUE, rows |-> <<>>]

\* self.data.dropna()
RECURSIVE dropna(_)
dropna(rows) ==
    IF rows = <<>> THEN <<>>
    ELSE IF Head(rows).timestamp = <<>> \/ Head(rows).value = <<>>
         THEN dropna(Tail(rows))
         ELSE <<[timestamp |-> Head(rows).timestamp[1], value |-> Head(rows).value[1]]>>
              \o dropna(Tail(rows))

\* sort_values('timestamp'): rows with equal timestamps keep their order (the
\* sort is an insertion sort at these lengths).
RECURSIVE InsertRow(_, _)
InsertRow(r, s) ==
    IF s = <<>> THEN <<r>>
    ELSE IF r.timestamp <= Head(s).timestamp THEN <<r>> \o s
    ELSE <<Head(s)>> \o InsertRow(r, Tail(s))

\* Mutant of sort_values: the rows stay in file order.
sort_values_none(rows) == rows

RECURSIVE sort_values(_)
sort_values(rows) ==
    IF rows = <<>> THEN <<>> ELSE InsertRow(Head(rows), sort_values(Tail(rows)))

\* source is "file_path" (pd.read_csv, also the uploaded_file branch) or "data"
\* (pd.DataFrame(data), skipped when the list is empty: ValueError, caught).
load_data(d, source, rows) ==
    IF source = "data" /\ rows = <<>>
    THEN [data |-> d, ret |-> "False"]
    ELSE [data |-> [is_none |-> FALSE, rows |-> sort_values(dropna(rows))], ret |-> "True"]

(***************************************************************************)
(* WaterPumpAnalyzer.save_to_json: the document written (analysis_date and *)
(* data_source left out).                                                  *)
(***************************************************************************)
save_to_json(analyzed) ==
    [kind             |-> "analysis",
     metadata         |-> [total_batches |-> Len(analyzed), window_size |-> 100],
     analysis_results |-> analyzed]

(***************************************************************************)
(* WaterPumpChatbot.  self.data is None, a falsy document ({}) or an       *)
(* analysis document; self.analysis_cache is a dictionary (a function on   *)
(* its keys), {} after construction.                                       *)
(***************************************************************************)
NoDocument == [kind |-> "None",
               metadata |-> [total_batches |-> 0, window_size |-> 0],
               analysis_results |-> <<>>]

EmptyDocument == [NoDocument EXCEPT !.kind = "empty"]

EmptyCache == [k \in {} |-> 0]

alert_counts0 == [k \in {"Normal", "Watch", "Caution", "Critical"} |-> 0]

trend_counts0 == [k \in {"Rising", "Falling", "Plateau"} |-> 0]

stability_counts0 == [k \in {"VeryStable", "Stable", "Moderate", "Unstable"} |-> 0]

\* The accumulators before the loop over results.
Acc0 == [all_temps        |-> <<>>,
         alert_counts     |-> alert_counts0,
         trend_counts     |-> trend_counts0,
         stability_counts |-> stability_counts0,
         critical_batches |-> <<>>,
         raised           |-> "none"]

\* Mutant of AggregateStep: a flagged batch is put at the front of the list.
AggregateStep_prepend(acc, result) ==
    IF result.alert_level \notin DOMAIN acc.alert_counts
       \/ result.trend \notin DOMAIN acc.trend_counts
       \/ result.stability \notin DOMAIN acc.stability_counts
    THEN [acc EXCEPT !.raised = "KeyError"]
    ELSE [acc EXCEPT
            !.all_temps = Append(@, result.statistics.mean),
            !.alert_counts[result.alert_level] = @ + 1,
            !.trend_counts[result.trend] = @ + 1,
            !.stability_counts[result.stability] = @ + 1,
            !.critical_batches =
                IF result.alert_level \in {"Critical", "Caution"}
                THEN <<result>> \o @ ELSE @]

\* Mutant of AggregateStep: the batch median is collected in place of the mean.
AggregateStep_median(acc, result) ==
    IF result.alert_level \notin DOMAIN acc.alert_counts
       \/ result.trend \notin DOMAIN acc.trend_counts
       \/ result.stability \notin DOMAIN acc.stability_counts
    THEN [acc EXCEPT !.raised = "KeyError"]
    ELSE [acc EXCEPT
            !.all_temps = Append(@, result.statistics.median),
            !.alert_counts[result.alert_level] = @ + 1,
            !.trend_counts[result.trend] = @ + 1,
            !.stability_counts[result.stability] = @ + 1,
            !.critical_batches =
                IF result.alert_level \in {"Critical", "Caution"}
                THEN Append(@, result) ELSE @]

\* One iteration of the loop: counts[key] += 1 raises KeyError on a key the
\* dictionary does not hold, and the loop ends there.
AggregateStep(acc, result) ==
    IF result.alert_level \notin DOMAIN acc.alert_counts
       \/ result.trend \notin DOMAIN acc.trend_counts
       \/ result.stability \notin DOMAIN acc.stability_counts
    THEN [acc EXCEPT !.raised = "KeyError"]
    ELSE [acc EXCEPT
            !.all_temps = Append(@, result.statistics.mean),
            !.alert_counts[result.alert_level] = @ + 1,
            !.trend_counts[result.trend] = @ + 1,
            !.stability_counts[result.stability] = @ + 1,
            !.critical_batches =
                IF result.alert_level \in {"Critical", "Caution"}
                THEN Append(@, result) ELSE @]

RECURSIVE AggregateLoop(_, _)
AggregateLoop(acc, results) ==
    IF results = <<>> \/ acc.raised # "none" THEN acc
    ELSE AggregateLoop(AggregateStep(acc, Head(results)), Tail(results))

RECURSIVE RatMaxSeq(_)
RatMaxSeq(s) ==
    IF Len(s) = 1 THEN s[1]
    ELSE LET r == RatMaxSeq(Tail(s)) IN IF RatLt(r, Head(s)) THEN Head(s) ELSE r

RECURSIVE RatMinSeq(_)
RatMinSeq(s) ==
    IF Len(s) = 1 THEN s[1]
    ELSE LET r == RatMinSeq(Tail(s)) IN IF RatLt(Head(s), r) THEN Head(s) ELSE r

\* Mutant of Summary: the average weights each batch mean by its record_count.
Summary_weighted(acc, results) ==
    [total_batches    |-> Len(results),
     avg_temperature  |->
        RatDivInt(RatSumSeq([i \in 1..Len(results) |->
                      RatMul(results[i].statistics.mean, Int2Rat(results[i].record_count))]),
                  SumSeq([i \in 1..Len(results) |-> results[i].record_count])),
     max_temperature  |-> RatMaxSeq([i \in 1..Len(results) |-> results[i].statistics.max]),
     min_temperature  |-> RatMinSeq([i \in 1..Len(results) |-> results[i].statistics.min]),
     alert_counts     |-> acc.alert_counts,
     trend_counts     |-> acc.trend_counts,
     stability_counts |-> acc.stability_counts,
     critical_batches |-> acc.critical_batches,
     analysis_period  |-> [start |-> results[1].start_timestamp,
                           end   |-> results[Len(results)].end_timestamp]]

\* The dictionary assigned to self.analysis_cache (results non-empty).
Summary(acc, results) ==
    [total_batches    |-> Len(results),
     avg_temperature  |-> RatDivInt(RatSumSeq(acc.all_temps), Len(acc.all_temps)),
     max_temperature  |-> RatMaxSeq([i \in 1..Len(results) |-> results[i].statistics.max]),
     min_temperature  |-> RatMinSeq([i \in 1..Len(results) |-> results[i].statistics.min]),
     alert_counts     |-> acc.alert_counts,
     trend_counts     |-> acc.trend_counts,
     stability_counts |-> acc.stability_counts,
     critical_batches |-> acc.critical_batches,
     analysis_period  |-> [start |-> results[1].start_timestamp,
                           end   |-> results[Len(results)].end_timestamp]]

\* Mutant of analyze_data: an empty run gets a summary of zero batches.
analyze_data_empty_run(d, cache) ==
    IF d.kind \in {"None", "empty"} THEN [analysis_cache |-> cache, raised |-> "none"]
    ELSE LET results == d.analysis_results
             acc == AggregateLoop(Acc0, results)
         IN  IF acc.raised # "none" THEN [analysis_cache |-> cache, raised |-> acc.raised]
             ELSE IF results = <<>>
                  THEN [analysis_cache |->
                            [total_batches |-> 0, alert_counts |-> acc.alert_counts,
                             trend_counts |-> acc.trend_counts,
                             stability_counts |-> acc.stability_counts,
                             critical_batches |-> <<>>],
                        raised |-> "none"]
             ELSE [analysis_cache |-> Summary(acc, results), raised |-> "none"]

\* analyze_data: returns at once on falsy data; an exception in the loop, or
\* max() of an empty list while the dictionary is built (np.mean of an empty
\* list only warns and yields nan), leaves self.analysis_cache as it was.
analyze_data(d, cache) ==
    IF d.kind \in {"None", "empty"} THEN [analysis_cache |-> cache, raised |-> "none"]
    ELSE LET results == d.analysis_results
             acc == AggregateLoop(Acc0, results)
         IN  IF acc.raised # "none" THEN [analysis_cache |-> cache, raised |-> acc.raised]
             ELSE IF results = <<>> THEN [analysis_cache |-> cache, raised |-> "ValueError"]
             ELSE [analysis_cache |-> Summary(acc, results), raised |-> "none"]

\* load_json_data: self.data is assigned before analyze_data runs; any
\* exception is caught and turns into the return value False.
load_json_data(cache, uploaded_file) ==
    LET r == analyze_data(uploaded_file, cache)
    IN  [data |-> uploaded_file,
         analysis_cache |-> r.analysis_cache,
         ret |-> IF r.raised = "none" THEN "True" ELSE "False"]

(***************************************************************************)
(* Inputs.                                                                 *)
(***************************************************************************)
\* A clean file: one row per value, timestamps 1, 2, 3, ...
CleanRows(vals) ==
    [k \in 1..Len(vals) |-> [timestamp |-> <<k>>, value |-> <<vals[k]>>]]

InputRows == {CleanRows(vals) : vals \in SeqsUpTo(Values, MaxSamples)}

\* load_data(file_path=...) with any file; load_data(data=...) with the empty
\* list (the one input on which the two branches differ) or a one-row list.
LoadInputs ==
    ({"file_path"} \X InputRows) \cup ({"data"} \X {r \in InputRows : Len(r) <= 1})

WindowSizes == (-1)..MaxWindow

\* Windows whose analyses cover every alert level, trend and stability class.
\*   <<60>>          Normal    Insufficient  VeryStable
\*   <<60, 72, 60>>  Watch     Plateau       Stable
\*   <<82, 60>>      Caution   Falling       Moderate
\*   <<40, 95>>      Critical  Rising        Unstable
BatchPool == {<<60>>, <<60, 72, 60>>, <<82, 60>>, <<40, 95>>}

\* The batch analyses of a list of windows, numbered 1, 2, ... with running
\* timestamps, as the analysis of two-row windows numbers them.
BatchList(windows) ==
    [k \in 1..Len(windows) |->
        AnalyzeWindow([j \in 1..Len(windows[k]) |->
                          [timestamp |-> 2 * (k - 1) + j, value |-> windows[k][j]]],
                      2 * (k - 1), 2)]

\* Values of the windows analysed on their own (SpecBatch).
BatchValues == {-5, 0, 60, 100}

BatchInputs == {CleanRows(vals) : vals \in SeqsUpTo(BatchValues, MaxBatchLen) \ {<<>>}}

\* Statistics handed to a classifier on its own: means and peaks in steps of
\* 0.5 around the alert thresholds; means, standard deviations (steps of 0.5)
\* and ranges around the label thresholds.
HalfSteps(lo, hi) == {Rat(k, 2) : k \in (2 * lo)..(2 * hi)}

AlertInputs ==
    {[NoStats EXCEPT !.mean = m, !.max = x] :
        m \in HalfSteps(60, 95), x \in HalfSteps(60, 95)}

LabelInputs ==
    {[NoStats EXCEPT !.mean = Int2Rat(m), !.std_sq = Rat(k * k, 4), !.range = Int2Rat(r)] :
        m \in {39, 40, 41, 50, 69, 70, 71, 84, 85, 86},
        k \in 0..12,
        r \in {3, 4, 5, 6, 14, 15, 16}}

\* Uploaded JSON documents: {} and analysis documents of up to MaxBatches batches.
JsonFiles ==
    {EmptyDocument} \cup
    {save_to_json(BatchList(ws)) : ws \in SeqsUpTo(BatchPool, MaxBatches)}

(***************************************************************************)
(* State after construction.                                               *)
(***************************************************************************)
\* op is the call made last: its name, its window_size argument, whether it
\* repeats the previous call on the same data (again), and what it returned.
NoCall == [name |-> "__init__", window_size |-> 0, again |-> FALSE, ret |-> "None"]

InitAnalyzer ==
    /\ data = NoneData
    /\ analyzed_data = <<>>

InitChatbot ==
    /\ chatbot_data = NoDocument
    /\ analysis_cache = EmptyCache

\* arg is the input of an operation checked on its own (the values of a
\* window, a statistics dictionary, the rows of a file as read), out its result.
NoArg == [values |-> <<>>, statistics |-> NoStats, rows |-> <<>>]

NoOut == [fn |-> "none", str |-> "", statistics |-> NoStats]

InitPure ==
    /\ arg = NoArg
    /\ out = NoOut

\* json_file is the document save_to_json wrote last (NoDocument before any).
InitFile ==
    /\ json_file = NoDocument

\* llm_chatbot is the LLMWaterPumpChatbot (its data and analysis_cache),
\* dashboard the StreamlitDashboard (its data and the report generated last).
NoReport == [kind |-> "none", avg |-> Int2Rat(0), max |-> Int2Rat(0), min |-> Int2Rat(0),
             alert_counts |-> EmptyCache, critical |-> <<>>]

\* data_loaded is st.session_state.data_loaded of the chatbot application.
InitViews ==
    /\ llm_chatbot = [data |-> NoDocument, analysis_cache |-> EmptyCache]
    /\ dashboard = [data |-> NoDocument, report |-> NoReport]
    /\ data_loaded = FALSE

Init ==
    /\ InitAnalyzer
    /\ InitChatbot
    /\ InitPure
    /\ InitFile
    /\ InitViews
    /\ op = NoCall
    /\ raised = "none"

(***************************************************************************)
(* Analyzer actions.                                                       *)
(***************************************************************************)
\* WaterPumpAnalyzer(): a fresh analyzer replaces the current one.
Construct ==
    /\ data' = NoneData
    /\ analyzed_data' = <<>>
    /\ op' = NoCall
    /\ raised' = "none"
    /\ UNCHANGED <<chatbot_data, analysis_cache, arg, out, json_file,
                 llm_chatbot, dashboard, data_loaded>>

LoadData(source, rows) ==
    LET r == load_data(data, source, rows)
    IN  /\ data' = r.data
        /\ op' = [name |-> "load_data", window_size |-> 0, again |-> FALSE, ret |-> r.ret]
        /\ raised' = "none"
        /\ UNCHANGED <<analyzed_data, chatbot_data, analysis_cache, arg, out, json_file,
                 llm_chatbot, dashboard, data_loaded>>

\* Mutant of reset_analyzed_data: the earlier results are kept.
keep_analyzed_data(previous) == previous

\* self.analyzed_data = [] at the start of analyze_temperature_characteristics.
reset_analyzed_data(previous) == <<>>

\* The batches of this call are appended to the list as it is after the reset.
AnalyzeTemperatureCharacteristics(window_size) ==
    LET r == analyze_temperature_characteristics(data, window_size)
    IN  /\ analyzed_data' = reset_analyzed_data(analyzed_data) \o r.analyzed_data
        /\ raised' = r.raised
        /\ op' = [name |-> "analyze_temperature_characteristics",
                  window_size |-> window_size,
                  again |-> /\ op.name = "analyze_temperature_characteristics"
                            /\ op.window_size = window_size,
                  ret |-> "None"]
        /\ UNCHANGED <<data, chatbot_data, analysis_cache, arg, out, json_file,
                 llm_chatbot, dashboard, data_loaded>>

(***************************************************************************)
(* Chatbot actions.                                                        *)
(***************************************************************************)
LoadJsonData(uploaded_file) ==
    LET r == load_json_data(analysis_cache, uploaded_file)
    IN  /\ chatbot_data' = r.data
        /\ analysis_cache' = r.analysis_cache
        /\ op' = [name |-> "load_json_data", window_size |-> 0, again |-> FALSE, ret |-> r.ret]
        /\ raised' = "none"
        /\ UNCHANGED <<data, analyzed_data, arg, out, json_file,
                 llm_chatbot, dashboard, data_loaded>>

AnalyzeData ==
    LET r == analyze_data(chatbot_data, analysis_cache)
    IN  /\ analysis_cache' = r.analysis_cache
        /\ raised' = r.raised
        /\ op' = [name |-> "analyze_data", window_size |-> 0, again |-> FALSE, ret |-> "None"]
        /\ UNCHANGED <<data, analyzed_data, chatbot_data, arg, out, json_file,
                 llm_chatbot, dashboard, data_loaded>>

NextChatbot ==
    \/ \E uploaded_file \in JsonFiles : LoadJsonData(uploaded_file)
    \/ AnalyzeData

SpecChatbot == Init /\ [][NextChatbot]_vars

(***************************************************************************)
(* One loaded analyzer, analysed with windows up to the length of the data *)
(* (SpecBatch); one classifier applied to given statistics (SpecAlert,     *)
(* SpecLabel).                                                             *)
(***************************************************************************)
InitBatch ==
    /\ data \in {load_data(NoneData, "file_path", rows).data : rows \in BatchInputs}
    /\ analyzed_data = <<>>
    /\ InitChatbot
    /\ InitPure
    /\ InitFile
    /\ InitViews
    /\ op = [name |-> "load_data", window_size |-> 0, again |-> FALSE, ret |-> "True"]
    /\ raised = "none"

NextBatch ==
    \E window_size \in 1..MaxBatchLen : AnalyzeTemperatureCharacteristics(window_size)

SpecBatch == InitBatch /\ [][NextBatch]_vars

InitAlert ==
    /\ InitAnalyzer
    /\ InitChatbot
    /\ arg \in {[NoArg EXCEPT !.statistics = st] : st \in AlertInputs}
    /\ out = NoOut
    /\ InitFile
    /\ InitViews
    /\ op = NoCall
    /\ raised = "none"

DetermineAlertLevel ==
    /\ out' = [NoOut EXCEPT !.fn = "_determine_alert_level",
                            !.str = _determine_alert_level(arg.statistics)]
    /\ op' = [name |-> "_determine_alert_level", window_size |-> 0, again |-> FALSE, ret |-> out'.str]
    /\ UNCHANGED <<data, analyzed_data, raised, chatbot_data, analysis_cache, arg, json_file,
                 llm_chatbot, dashboard, data_loaded>>

SpecAlert == InitAlert /\ [][DetermineAlertLevel]_vars

InitLabel ==
    /\ InitAnalyzer
    /\ InitChatbot
    /\ arg \in {[NoArg EXCEPT !.statistics = st] : st \in LabelInputs}
    /\ out = NoOut
    /\ InitFile
    /\ InitViews
    /\ op = NoCall
    /\ raised = "none"

GenerateTemperatureLabel ==
    /\ out' = [NoOut EXCEPT !.fn = "_generate_temperature_label",
                            !.str = _generate_temperature_label(arg.statistics)]
    /\ op' = [name |-> "_generate_temperature_label", window_size |-> 0, again |-> FALSE, ret |-> out'.str]
    /\ UNCHANGED <<data, analyzed_data, raised, chatbot_data, analysis_cache, arg, json_file,
                 llm_chatbot, dashboard, data_loaded>>

SpecLabel == InitLabel /\ [][GenerateTemperatureLabel]_vars

(***************************************************************************)
(* The trend classifier applied to the values of one window (SpecTrend).   *)
(***************************************************************************)
MaxTrendLen == 4

TrendValues == {0, 1, 2}

TrendInputs ==
    SeqsUpTo(TrendValues, MaxTrendLen) \cup {<<10, 20, 30, 40, 50>>}

InitTrend ==
    /\ InitAnalyzer
    /\ InitChatbot
    /\ arg \in {[NoArg EXCEPT !.values = v] : v \in TrendInputs}
    /\ out = NoOut
    /\ InitFile
    /\ InitViews
    /\ op = NoCall
    /\ raised = "none"

AnalyzeTrend ==
    /\ out' = [NoOut EXCEPT !.fn = "_analyze_trend",
                            !.str = _analyze_trend(arg.values)]
    /\ op' = [name |-> "_analyze_trend", window_size |-> 0, again |-> FALSE, ret |-> out'.str]
    /\ UNCHANGED <<data, analyzed_data, raised, chatbot_data, analysis_cache, arg, json_file,
                 llm_chatbot, dashboard, data_loaded>>

SpecTrend == InitTrend /\ [][AnalyzeTrend]_vars

(***************************************************************************)
(* The stability classifier applied to given statistics (SpecStability).   *)
(* With mean 10 the standard deviations 0.5, 1 and 2 give cv = 0.05, 0.1   *)
(* and 0.2 exactly; with mean 40 the deviations 2, 4 and 8 do.             *)
(***************************************************************************)
StabilityInputs ==
    {[NoStats EXCEPT !.mean = Int2Rat(m), !.std_sq = Rat(k * k, 4)] :
        m \in {-10, 0, 10, 40},
        k \in 0..17}

InitStability ==
    /\ InitAnalyzer
    /\ InitChatbot
    /\ arg \in {[NoArg EXCEPT !.statistics = st] : st \in StabilityInputs}
    /\ out = NoOut
    /\ InitFile
    /\ InitViews
    /\ op = NoCall
    /\ raised = "none"

AnalyzeStability ==
    /\ out' = [NoOut EXCEPT !.fn = "_analyze_stability",
                            !.str = _analyze_stability(arg.statistics)]
    /\ op' = [name |-> "_analyze_stability", window_size |-> 0, again |-> FALSE, ret |-> out'.str]
    /\ UNCHANGED <<data, analyzed_data, raised, chatbot_data, analysis_cache, arg, json_file,
                 llm_chatbot, dashboard, data_loaded>>

SpecStability == InitStability /\ [][AnalyzeStability]_vars

(***************************************************************************)
(* load_data on files as read, rows in any order and cells missing         *)
(* (SpecLoad).  A cell is <<x>>, or <<>> where to_datetime / to_numeric    *)
(* leave NaT / NaN; timestamps that cannot be parsed at all are not drawn. *)
(***************************************************************************)
MaxRawLen == 3

RawCells ==
    {[timestamp |-> t, value |-> v] : t \in {<<>>, <<1>>, <<2>>, <<3>>}, v \in {<<>>, <<60>>}}

RawInputs == SeqsUpTo(RawCells, MaxRawLen)

InitLoad ==
    /\ InitAnalyzer
    /\ InitChatbot
    /\ arg \in {[NoArg EXCEPT !.rows = r] : r \in RawInputs}
    /\ out = NoOut
    /\ InitFile
    /\ InitViews
    /\ op = NoCall
    /\ raised = "none"

NextLoad ==
    \E source \in {"file_path", "data"} : LoadData(source, arg.rows)

SpecLoad == InitLoad /\ [][NextLoad]_vars

(***************************************************************************)
(* A loaded analyzer that is analysed and saved (SpecSave).                *)
(***************************************************************************)
SaveToJson ==
    /\ json_file' = save_to_json(analyzed_data)
    /\ op' = [name |-> "save_to_json", window_size |-> 0, again |-> FALSE, ret |-> "output_file"]
    /\ raised' = "none"
    /\ UNCHANGED <<data, analyzed_data, chatbot_data, analysis_cache, arg, out,
                 llm_chatbot, dashboard, data_loaded>>

InitSave ==
    /\ data \in {load_data(NoneData, "file_path", rows).data : rows \in InputRows}
    /\ analyzed_data = <<>>
    /\ InitChatbot
    /\ InitPure
    /\ InitFile
    /\ InitViews
    /\ op = [name |-> "load_data", window_size |-> 0, again |-> FALSE, ret |-> "True"]
    /\ raised = "none"

NextSave ==
    \/ \E window_size \in 1..MaxWindow : AnalyzeTemperatureCharacteristics(window_size)
    \/ SaveToJson

SpecSave == InitSave /\ [][NextSave]_vars

(***************************************************************************)
(* The whole pipeline on one file (SpecPipeline): load_data, then          *)
(* analyze_temperature_characteristics, then save_to_json, then the        *)
(* chatbot's load_json_data of the document saved.                         *)
(***************************************************************************)
MaxPipelineLen == 4

PipelineCells ==
    {[timestamp |-> t, value |-> <<60>>] : t \in {<<>>, <<1>>, <<2>>, <<3>>}}

PipelineInputs == SeqsUpTo(PipelineCells, MaxPipelineLen)

InitPipeline ==
    /\ InitAnalyzer
    /\ InitChatbot
    /\ arg \in {[NoArg EXCEPT !.rows = r] : r \in PipelineInputs}
    /\ out = NoOut
    /\ InitFile
    /\ InitViews
    /\ op = NoCall
    /\ raised = "none"

NextPipeline ==
    \/ /\ op.name = "__init__"
       /\ LoadData("file_path", arg.rows)
    \/ /\ op.name = "load_data"
       /\ \E window_size \in 1..MaxWindow : AnalyzeTemperatureCharacteristics(window_size)
    \/ /\ op.name = "analyze_temperature_characteristics"
       /\ SaveToJson
    \/ /\ op.name = "save_to_json"
       /\ LoadJsonData(json_file)

SpecPipeline == InitPipeline /\ [][NextPipeline]_vars

(***************************************************************************)
(* LLMWaterPumpChatbot (chatbot_implementation_openai.py): its analyze_data *)
(* and load_json_data.                                                     *)
(***************************************************************************)
LLM_Acc0 == [all_temps        |-> <<>>,
             alert_counts     |-> [k \in {"Normal", "Watch", "Caution", "Critical"} |-> 0],
             trend_counts     |-> [k \in {"Rising", "Falling", "Plateau"} |-> 0],
             stability_counts |-> [k \in {"VeryStable", "Stable", "Moderate", "Unstable"} |-> 0],
             critical_batches |-> <<>>,
             raised           |-> "none"]

RECURSIVE LLM_AggregateLoop(_, _)
LLM_AggregateLoop(acc, results) ==
    IF results = <<>> \/ acc.raised # "none" THEN acc
    ELSE LET result == Head(results)
             next ==
                IF result.alert_level \notin DOMAIN acc.alert_counts
                   \/ result.trend \notin DOMAIN acc.trend_counts
                   \/ result.stability \notin DOMAIN acc.stability_counts
                THEN [acc EXCEPT !.raised = "KeyError"]
                ELSE [acc EXCEPT
                        !.all_temps = Append(@, result.statistics.mean),
                        !.alert_counts[result.alert_level] = @ + 1,
                        !.trend_counts[result.trend] = @ + 1,
                        !.stability_counts[result.stability] = @ + 1,
                        !.critical_batches =
                            IF result.alert_level \in {"Critical", "Caution"}
                            THEN Append(@, result) ELSE @]
         IN  LLM_AggregateLoop(next, Tail(results))

LLM_analyze_data(d, cache) ==
    IF d.kind \in {"None", "empty"} THEN [analysis_cache |-> cache, raised |-> "none"]
    ELSE LET results == d.analysis_results
             acc == LLM_AggregateLoop(LLM_Acc0, results)
         IN  IF acc.raised # "none" THEN [analysis_cache |-> cache, raised |-> acc.raised]
             ELSE IF results = <<>> THEN [analysis_cache |-> cache, raised |-> "ValueError"]
             ELSE [analysis_cache |->
                     [total_batches    |-> Len(results),
                      avg_temperature  |-> RatDivInt(RatSumSeq(acc.all_temps), Len(acc.all_temps)),
                      max_temperature  |->
                          RatMaxSeq([i \in 1..Len(results) |-> results[i].statistics.max]),
                      min_temperature  |->
                          RatMinSeq([i \in 1..Len(results) |-> results[i].statistics.min]),
                      alert_counts     |-> acc.alert_counts,
                      trend_counts     |-> acc.trend_counts,
                      stability_counts |-> acc.stability_counts,
                      critical_batches |-> acc.critical_batches,
                      analysis_period  |-> [start |-> results[1].start_timestamp,
                                            end   |-> results[Len(results)].end_timestamp]],
                   raised |-> "none"]

LLM_load_json_data(cache, uploaded_file) ==
    LET r == LLM_analyze_data(uploaded_file, cache)
    IN  [data |-> uploaded_file,
         analysis_cache |-> r.analysis_cache,
         ret |-> IF r.raised = "none" THEN "True" ELSE "False"]

(***************************************************************************)
(* StreamlitDashboard (streamlit_dashboard.py): load_json_data and         *)
(* generate_summary_report.  The report is text; the model keeps the       *)
(* numbers it prints, as printed (one decimal), and the lines of the       *)
(* critical batches in order.                                              *)
(***************************************************************************)
\* f"{x:.1f}": x rounded to one decimal, a tie going to the even digit.
format_1f(x) ==
    LET fl == (10 * x.n) \div x.d
        twice == 2 * (10 * x.n - fl * x.d)
    IN  IF twice < x.d THEN Rat(fl, 10)
        ELSE IF twice > x.d THEN Rat(fl + 1, 10)
        ELSE IF fl % 2 = 0 THEN Rat(fl, 10) ELSE Rat(fl + 1, 10)

\* alert_counts[alert] = alert_counts.get(alert, 0) + 1 over results.
dashboard_alert_counts(results) ==
    [a \in {results[i].alert_level : i \in 1..Len(results)} |->
        Cardinality({i \in 1..Len(results) : results[i].alert_level = a})]

\* Mutant of generate_summary_report: only Critical batches are listed.
generate_summary_report_critical_only(d) ==
    IF d.kind \in {"None", "empty"} THEN [report |-> [NoReport EXCEPT !.kind = "no_data"],
                                          raised |-> "none"]
    ELSE LET results == d.analysis_results
             all_temps == [i \in 1..Len(results) |-> results[i].statistics.mean]
         IN  IF results = <<>> THEN [report |-> NoReport, raised |-> "ValueError"]
             ELSE [report |->
                     [kind |-> "report",
                      avg  |-> format_1f(RatDivInt(RatSumSeq(all_temps), Len(all_temps))),
                      max  |-> format_1f(RatMaxSeq([i \in 1..Len(results) |->
                                                      results[i].statistics.max])),
                      min  |-> format_1f(RatMinSeq([i \in 1..Len(results) |->
                                                      results[i].statistics.min])),
                      alert_counts |-> dashboard_alert_counts(results),
                      critical |->
                          LET critical_batches ==
                                SelectSeq(results, LAMBDA r : r.alert_level \in {"Critical"})
                          IN  [i \in 1..Len(critical_batches) |->
                                  [batch_id |-> critical_batches[i].batch_id,
                                   mean |-> format_1f(critical_batches[i].statistics.mean),
                                   alert_level |-> critical_batches[i].alert_level]]],
                   raised |-> "none"]

\* generate_summary_report: "no data" text on falsy data; max() of an empty
\* list raises ValueError.
generate_summary_report(d) ==
    IF d.kind \in {"None", "empty"} THEN [report |-> [NoReport EXCEPT !.kind = "no_data"],
                                          raised |-> "none"]
    ELSE LET results == d.analysis_results
             all_temps == [i \in 1..Len(results) |-> results[i].statistics.mean]
         IN  IF results = <<>> THEN [report |-> NoReport, raised |-> "ValueError"]
             ELSE [report |->
                     [kind |-> "report",
                      avg  |-> format_1f(RatDivInt(RatSumSeq(all_temps), Len(all_temps))),
                      max  |-> format_1f(RatMaxSeq([i \in 1..Len(results) |->
                                                      results[i].statistics.max])),
                      min  |-> format_1f(RatMinSeq([i \in 1..Len(results) |->
                                                      results[i].statistics.min])),
                      alert_counts |-> dashboard_alert_counts(results),
                      critical |->
                          LET critical_batches ==
                                SelectSeq(results,
                                          LAMBDA r : r.alert_level \in {"Critical", "Caution"})
                          IN  [i \in 1..Len(critical_batches) |->
                                  [batch_id |-> critical_batches[i].batch_id,
                                   mean |-> format_1f(critical_batches[i].statistics.mean),
                                   alert_level |-> critical_batches[i].alert_level]]],
                   raised |-> "none"]

(***************************************************************************)
(* One analysis file opened in the three applications (SpecViews).         *)
(***************************************************************************)
LLMLoadJsonData(uploaded_file) ==
    LET r == LLM_load_json_data(llm_chatbot.analysis_cache, uploaded_file)
    IN  /\ llm_chatbot' = [data |-> r.data, analysis_cache |-> r.analysis_cache]
        /\ op' = [name |-> "LLM.load_json_data", window_size |-> 0, again |-> FALSE,
                  ret |-> r.ret]
        /\ raised' = "none"
        /\ UNCHANGED <<data, analyzed_data, chatbot_data, analysis_cache, arg, out,
                       json_file, dashboard, data_loaded>>

DashboardLoadJsonData(uploaded_file) ==
    /\ dashboard' = [dashboard EXCEPT !.data = uploaded_file]
    /\ op' = [name |-> "Dashboard.load_json_data", window_size |-> 0, again |-> FALSE,
              ret |-> "True"]
    /\ raised' = "none"
    /\ UNCHANGED <<data, analyzed_data, chatbot_data, analysis_cache, arg, out,
                   json_file, llm_chatbot, data_loaded>>

\* run() shows the export menu, and with it the report button, only when
\* self.data is not None.
GenerateSummaryReport ==
    /\ dashboard.data.kind # "None"
    /\ LET r == generate_summary_report(dashboard.data)
       IN  /\ dashboard' = [dashboard EXCEPT !.report = r.report]
           /\ raised' = r.raised
    /\ op' = [name |-> "generate_summary_report", window_size |-> 0, again |-> FALSE,
              ret |-> "report"]
    /\ UNCHANGED <<data, analyzed_data, chatbot_data, analysis_cache, arg, out,
                   json_file, llm_chatbot, data_loaded>>

InitViewsFile ==
    /\ InitAnalyzer
    /\ InitChatbot
    /\ InitPure
    /\ json_file \in JsonFiles
    /\ InitViews
    /\ op = NoCall
    /\ raised = "none"

NextViews ==
    \/ LoadJsonData(json_file)
    \/ LLMLoadJsonData(json_file)
    \/ DashboardLoadJsonData(json_file)
    \/ GenerateSummaryReport

SpecViews == InitViewsFile /\ [][NextViews]_vars

(***************************************************************************)
(* The chatbot application (chatbot_implementation.py main): the sidebar   *)
(* load paths, guarded by data_loaded, and a query (SpecSession).          *)
(***************************************************************************)
\* Mutant of get_emergency_alert: any flagged batch is an emergency.
get_emergency_alert_any(cache) ==
    IF "critical_batches" \notin DOMAIN cache
    THEN [response |-> "None", raised |-> "KeyError"]
    ELSE [response |-> IF cache.critical_batches # <<>> THEN "emergency" ELSE "None",
          raised |-> "none"]

\* get_emergency_alert: the text of format_emergency_response is kept as
\* "emergency"; reading a key the cache does not hold raises KeyError.
get_emergency_alert(cache) ==
    IF "critical_batches" \notin DOMAIN cache
    THEN [response |-> "None", raised |-> "KeyError"]
    ELSE LET emergency_batches ==
                SelectSeq(cache.critical_batches, LAMBDA b : b.alert_level = "Critical")
         IN  [response |-> IF emergency_batches # <<>> THEN "emergency" ELSE "None",
              raised |-> "none"]

\* load_and_analyze_csv: a fresh analyzer loads the file and analyses it with
\* the default window_size of 100; chatbot.data is assigned before
\* analyze_data runs; any exception turns into the return value False.
load_and_analyze_csv(cache, rows) ==
    LET loaded == load_data(NoneData, "file_path", rows)
        analysis == analyze_temperature_characteristics(loaded.data, 100)
        chatbot_document ==
            [kind |-> "analysis",
             metadata |-> [total_batches |-> Len(analysis.analyzed_data), window_size |-> 100],
             analysis_results |-> analysis.analyzed_data]
        r == analyze_data(chatbot_document, cache)
    IN  [data |-> chatbot_document,
         analysis_cache |-> r.analysis_cache,
         ret |-> IF r.raised = "none" THEN "True" ELSE "False"]

\* The documents create_sample_data_for_chatbot can build: every batch of the
\* generated samples is a full window, so none has a single sample.
SampleDocuments ==
    {d \in JsonFiles :
        /\ d.kind = "analysis"
        /\ d.analysis_results # <<>>
        /\ \A i \in 1..Len(d.analysis_results) : d.analysis_results[i].record_count >= 2}

\* CSV files uploaded in the sidebar: clean rows, up to MaxSamples of them,
\* of values on and around the label and alert thresholds.
SessionValues == {60, 70, 85, 100}

SessionCsvInputs == {CleanRows(vals) : vals \in SeqsUpTo(SessionValues, MaxSamples)}

\* The check for an emergency that follows a successful load in the sidebar.
AfterLoad(cache, loaded) ==
    IF loaded
    THEN LET e == get_emergency_alert(cache)
         IN  /\ out' = [NoOut EXCEPT !.fn = "get_emergency_alert", !.str = e.response]
             /\ raised' = e.raised
    ELSE /\ out' = NoOut
         /\ raised' = "none"

SidebarCsv(rows) ==
    /\ ~data_loaded
    /\ LET r == load_and_analyze_csv(analysis_cache, rows)
       IN  /\ chatbot_data' = r.data
           /\ analysis_cache' = r.analysis_cache
           /\ data_loaded' = (r.ret = "True")
           /\ op' = [name |-> "load_and_analyze_csv", window_size |-> 100, again |-> FALSE,
                     ret |-> r.ret]
           /\ AfterLoad(r.analysis_cache, r.ret = "True")
    /\ UNCHANGED <<data, analyzed_data, arg, json_file, llm_chatbot, dashboard>>

SidebarJson(uploaded_file) ==
    /\ ~data_loaded
    /\ LET r == load_json_data(analysis_cache, uploaded_file)
       IN  /\ chatbot_data' = r.data
           /\ analysis_cache' = r.analysis_cache
           /\ data_loaded' = (r.ret = "True")
           /\ op' = [name |-> "load_json_data", window_size |-> 0, again |-> FALSE,
                     ret |-> r.ret]
           /\ AfterLoad(r.analysis_cache, r.ret = "True")
    /\ UNCHANGED <<data, analyzed_data, arg, json_file, llm_chatbot, dashboard>>

\* The sample button: data_loaded is set whatever create_sample_data_for_chatbot did.
SidebarSample(sample_document) ==
    /\ ~data_loaded
    /\ LET r == analyze_data(sample_document, analysis_cache)
       IN  /\ chatbot_data' = sample_document
           /\ analysis_cache' = r.analysis_cache
    /\ data_loaded' = TRUE
    /\ op' = [name |-> "create_sample_data_for_chatbot", window_size |-> 100,
              again |-> FALSE, ret |-> "None"]
    /\ out' = NoOut
    /\ raised' = "none"
    /\ UNCHANGED <<data, analyzed_data, arg, json_file, llm_chatbot, dashboard>>

\* A question in the chat: analyze_user_query starts with get_emergency_alert.
AnalyzeUserQuery ==
    /\ data_loaded
    /\ LET e == get_emergency_alert(analysis_cache)
       IN  /\ out' = [NoOut EXCEPT !.fn = "get_emergency_alert", !.str = e.response]
           /\ raised' = e.raised
    /\ op' = [name |-> "analyze_user_query", window_size |-> 0, again |-> FALSE,
              ret |-> out'.str]
    /\ UNCHANGED <<data, analyzed_data, chatbot_data, analysis_cache, arg, json_file,
                   llm_chatbot, dashboard, data_loaded>>

NextSession ==
    \/ \E rows \in SessionCsvInputs : SidebarCsv(rows)
    \/ \E uploaded_file \in JsonFiles : SidebarJson(uploaded_file)
    \/ \E sample_document \in SampleDocuments : SidebarSample(sample_document)
    \/ AnalyzeUserQuery

SpecSession == Init /\ [][NextSession]_vars

(***************************************************************************)
(* One batch of samples a few degrees apart, analysed as a whole window    *)
(* (SpecSpread): its statistics and its label.                             *)
(***************************************************************************)
SpreadValues == {60, 64, 65, 70}

SpreadInputs == SeqsUpTo(SpreadValues, MaxBatchLen) \ {<<>>}

InitSpread ==
    /\ InitAnalyzer
    /\ InitChatbot
    /\ arg \in {[NoArg EXCEPT !.values = v] : v \in SpreadInputs}
    /\ out = NoOut
    /\ InitFile
    /\ InitViews
    /\ op = NoCall
    /\ raised = "none"

AnalyzeOneWindow ==
    LET window_data == load_data(NoneData, "file_path", CleanRows(arg.values)).data.rows
        analysis == AnalyzeWindow(window_data, 0, Len(window_data))
    IN  /\ out' = [fn |-> "value_label", str |-> analysis.value_label,
                   statistics |-> analysis.statistics]
        /\ op' = [name |-> "analyze_window", window_size |-> Len(window_data),
                  again |-> FALSE, ret |-> "None"]
        /\ UNCHANGED <<data, analyzed_data, raised, chatbot_data, analysis_cache, arg,
                       json_file, llm_chatbot, dashboard, data_loaded>>

SpecSpread == InitSpread /\ [][AnalyzeOneWindow]_vars

Next ==
    \/ Construct
    \/ \E in \in LoadInputs : LoadData(in[1], in[2])
    \/ \E window_size \in WindowSizes : AnalyzeTemperatureCharacteristics(window_size)

Spec == Init /\ [][Next]_vars

(***************************************************************************)
(* Properties of the segmenter, checked under Spec.                        *)
(***************************************************************************)
Analyzed ==
    /\ op.name = "analyze_temperature_characteristics"
    /\ ~data.is_none

RecordCounts == [k \in 1..Len(analyzed_data) |-> analyzed_data[k].record_count]

\* C1: for N >= 1 samples and window_size w > 0 the analysis returns normally
\* with ceil(N/w) batches whose record counts sum to N; every batch but the
\* last holds w records and the last holds N mod w, or w when w divides N.
C1_BatchCountAndSizes ==
    (Analyzed /\ op.window_size > 0 /\ Len(data.rows) >= 1) =>
        LET N == Len(data.rows)
            w == op.window_size
            B == Len(analyzed_data)
        IN  /\ raised = "none"
            /\ B * w >= N
            /\ (B - 1) * w < N
            /\ SumSeq(RecordCounts) = N
            /\ \A k \in 1..(B - 1) : RecordCounts[k] = w
            /\ RecordCounts[B] = (IF N % w = 0 THEN w ELSE N % w)

\* C1 witness: three samples analysed with window 2 gave batches of 2 and 1.
C1_Witness ==
    /\ Analyzed
    /\ op.window_size = 2
    /\ Len(data.rows) = 3
    /\ RecordCounts = <<2, 1>>

RECURSIVE ConcatRaw(_)
ConcatRaw(batches) ==
    IF batches = <<>> THEN <<>> ELSE Head(batches).raw_data \o ConcatRaw(Tail(batches))

\* C2: for w > 0 the raw_data of the batches, concatenated in batch order, is
\* the loaded sample sequence (each sample once, in order), and a final
\* partial window is a batch of its own after a full previous batch.
C2_ContiguousNonOverlapping ==
    (Analyzed /\ op.window_size > 0) =>
        LET N == Len(data.rows)
            w == op.window_size
            B == Len(analyzed_data)
        IN  /\ ConcatRaw(analyzed_data) =
                  [i \in 1..N |-> [timestamp |-> isoformat(data.rows[i].timestamp),
                                   value     |-> data.rows[i].value]]
            /\ (N % w # 0) =>
                  /\ B >= 1
                  /\ Len(analyzed_data[B].raw_data) = N % w
                  /\ (B > 1 => Len(analyzed_data[B - 1].raw_data) = w)

\* C2 witness: a final partial window (one sample after a full window of two)
\* was emitted as the second batch.
C2_Witness ==
    /\ Analyzed
    /\ op.window_size = 2
    /\ Len(data.rows) = 3
    /\ Len(analyzed_data) = 2
    /\ Len(analyzed_data[2].raw_data) = 1
    /\ analyzed_data[2].raw_data[1].timestamp = isoformat(data.rows[3].timestamp)

\* C6: a call with window_size <= 0 fails with an error instead of returning
\* normally.
C6_NonPositiveWindowFails ==
    (Analyzed /\ op.window_size <= 0) => raised # "none"

\* C8: the k-th batch analysis has batch_id = k.
C8_BatchIdsSequential ==
    \A k \in 1..Len(analyzed_data) : analyzed_data[k].batch_id = k

\* C8 witness: an analysis with window 2 produced two batches, ids 1 and 2.
C8_Witness ==
    /\ Analyzed
    /\ op.window_size = 2
    /\ Len(analyzed_data) = 2
    /\ analyzed_data[2].batch_id = 2

(***************************************************************************)
(* Properties of the statistics, checked under SpecBatch.                  *)
(***************************************************************************)
\* C9: every produced batch has min <= median <= max, range = max - min,
\* range >= 0 and std >= 0, std being the population standard deviation:
\* std^2 = (k * sum(x^2) - sum(x)^2) / k^2 over the k values of the batch.
C9_StatisticsInvariant ==
    \A b \in 1..Len(analyzed_data) :
        LET st == analyzed_data[b].statistics
            x == [i \in 1..Len(analyzed_data[b].raw_data) |->
                     analyzed_data[b].raw_data[i].value]
            k == Len(x)
            sq == SumSeq([i \in 1..k |-> x[i] * x[i]])
        IN  /\ st.min.n * st.median.d <= st.median.n * st.min.d
            /\ st.median.n * st.max.d <= st.max.n * st.median.d
            /\ st.range.d = 1 /\ st.max.d = 1 /\ st.min.d = 1
            /\ st.range.n = st.max.n - st.min.n
            /\ st.range.n >= 0
            /\ st.std_sq.n >= 0 /\ st.std_sq.d > 0
            /\ st.std_sq.n * (k * k) = (k * sq - SumSeq(x) * SumSeq(x)) * st.std_sq.d

\* C9 witness: a batch of four values whose first value is not the least,
\* with a median strictly between min and max and a positive deviation.
C9_Witness ==
    /\ Len(analyzed_data) = 1
    /\ analyzed_data[1].record_count = 4
    /\ analyzed_data[1].raw_data[1].value = 100
    /\ analyzed_data[1].statistics.min = Int2Rat(-5)
    /\ analyzed_data[1].statistics.median = Int2Rat(30)
    /\ analyzed_data[1].statistics.std_sq.n > 0

(***************************************************************************)
(* Properties of the alert ladder, checked under SpecAlert.                *)
(***************************************************************************)
\* a > c for a rational a and an integer c, by cross-multiplication.
Above(a, c) == a.n > c * a.d

\* C3: max > 90 or mean > 85 gives Critical; otherwise max > 80 or mean > 75
\* gives Caution; otherwise max > 70 or mean > 65 gives Watch; otherwise
\* Normal.  The comparisons are strict, and either rule alone fires a level.
C3_AlertLadder ==
    (out.fn = "_determine_alert_level") =>
        LET m == arg.statistics.mean
            x == arg.statistics.max
            crit == Above(x, 90) \/ Above(m, 85)
            caut == Above(x, 80) \/ Above(m, 75)
            watch == Above(x, 70) \/ Above(m, 65)
        IN  /\ crit => out.str = "Critical"
            /\ (~crit /\ caut) => out.str = "Caution"
            /\ (~crit /\ ~caut /\ watch) => out.str = "Watch"
            /\ (~crit /\ ~caut /\ ~watch) => out.str = "Normal"
            /\ (x = Int2Rat(90) /\ ~Above(m, 85)) => out.str # "Critical"
            /\ (m = Int2Rat(86) /\ x = Int2Rat(70)) => out.str = "Critical"
            /\ (m = Int2Rat(60) /\ x = Int2Rat(95)) => out.str = "Critical"

\* C3 witness: mean 86 with max 70 was classified Critical by the mean rule.
C3_Witness ==
    /\ out.fn = "_determine_alert_level"
    /\ arg.statistics.mean = Int2Rat(86)
    /\ arg.statistics.max = Int2Rat(70)
    /\ out.str = "Critical"

(***************************************************************************)
(* Properties of the label generator, checked under SpecLabel.             *)
(***************************************************************************)
\* lo <= a < hi for a rational a >= 0 (hi = -1: no upper limit).
InBand(a, lo, hi) == a.n >= lo * a.d /\ (hi = -1 \/ a.n < hi * a.d)

\* C10: the label is temp_category_variability_range_category with mean < 40
\* Low, < 70 Normal, < 85 High, else Overheat; std < 2 Stable, < 5 Moderate,
\* else Unstable; range < 5 Constant, < 15 Variable, else Volatile; a value on
\* a limit falls into the upper band.
C10_LabelLadders ==
    (out.fn = "_generate_temperature_label") =>
        LET m == arg.statistics.mean
            v == arg.statistics.std_sq
            r == arg.statistics.range
            temp == CASE m.n < 40 * m.d -> "Low"
                      [] InBand(m, 40, 70) -> "Normal"
                      [] InBand(m, 70, 85) -> "High"
                      [] InBand(m, 85, -1) -> "Overheat"
            var == CASE InBand(v, 0, 4) -> "Stable"
                     [] InBand(v, 4, 25) -> "Moderate"
                     [] InBand(v, 25, -1) -> "Unstable"
            rng == CASE InBand(r, 0, 5) -> "Constant"
                     [] InBand(r, 5, 15) -> "Variable"
                     [] InBand(r, 15, -1) -> "Volatile"
        IN  /\ out.str = temp \o "_" \o var \o "_" \o rng
            /\ (m = Int2Rat(50) /\ v = Int2Rat(1) /\ r = Int2Rat(3))
                  => out.str = "Normal_Stable_Constant"
            /\ (m = Int2Rat(40) /\ v = Int2Rat(4) /\ r = Int2Rat(15))
                  => out.str = "Normal_Moderate_Volatile"
            /\ (m = Int2Rat(85) /\ v = Int2Rat(25) /\ r = Int2Rat(5))
                  => out.str = "Overheat_Unstable_Variable"

\* C10 witness: mean 50, std 1, range 3 was labelled Normal_Stable_Constant.
C10_Witness ==
    /\ out.fn = "_generate_temperature_label"
    /\ arg.statistics.mean = Int2Rat(50)
    /\ arg.statistics.std_sq = Int2Rat(1)
    /\ arg.statistics.range = Int2Rat(3)
    /\ out.str = "Normal_Stable_Constant"

(***************************************************************************)
(* Properties of the run aggregator, checked under SpecChatbot.            *)
(***************************************************************************)
CountSum(counts) ==
    LET keys == DOMAIN counts
        RECURSIVE Sum(_)
        Sum(K) == IF K = {} THEN 0
                  ELSE LET k == CHOOSE k \in K : TRUE IN counts[k] + Sum(K \ {k})
    IN  Sum(keys)

\* C4: over every non-empty list of batch analyses with categories of the
\* enumerated vocabularies, analyze_data completes without error, and its
\* summary has total_batches = the length of the list and alert, trend and
\* stability counts that each sum to total_batches.
C4_AggregatorTotal ==
    (/\ op.name = "analyze_data"
     /\ chatbot_data.kind = "analysis"
     /\ chatbot_data.analysis_results # <<>>) =>
        /\ raised = "none"
        /\ DOMAIN analysis_cache # {}
        /\ analysis_cache.total_batches = Len(chatbot_data.analysis_results)
        /\ CountSum(analysis_cache.alert_counts) = analysis_cache.total_batches
        /\ CountSum(analysis_cache.trend_counts) = analysis_cache.total_batches
        /\ CountSum(analysis_cache.stability_counts) = analysis_cache.total_batches

\* The last operation built a summary of the document now held.
Aggregated ==
    /\ chatbot_data.kind = "analysis"
    /\ \/ op.name = "analyze_data" /\ raised = "none"
       \/ op.name = "load_json_data" /\ op.ret = "True"

IsFlagged(result) == result.alert_level \in {"Caution", "Critical"}

\* C5: critical_batches holds exactly the batches whose alert level is
\* Caution or Critical, each once, in the order of the batch list (ascending
\* batch_id).
C5_CriticalBatchesInOrder ==
    Aggregated =>
        LET cb == analysis_cache.critical_batches
        IN  /\ cb = SelectSeq(chatbot_data.analysis_results, IsFlagged)
            /\ \A i, j \in 1..Len(cb) : i < j => cb[i].batch_id < cb[j].batch_id

\* C5 witness: a Caution batch followed by a Critical batch, flagged in that
\* order (an ordering by severity would put the Critical batch first).
C5_Witness ==
    /\ Aggregated
    /\ Len(analysis_cache.critical_batches) = 2
    /\ analysis_cache.critical_batches[1].alert_level = "Caution"
    /\ analysis_cache.critical_batches[2].alert_level = "Critical"

EmptyRun(d) == d.kind = "analysis" /\ d.analysis_results = <<>>

\* C7: analyze_data over a batch list of zero batches fails with an error
\* (load_json_data reports it as False) and leaves analysis_cache as it was.
C7_EmptyRunFails ==
    [][/\ (op'.name = "analyze_data" /\ EmptyRun(chatbot_data'))
            => (raised' # "none" /\ analysis_cache' = analysis_cache)
       /\ (op'.name = "load_json_data" /\ EmptyRun(chatbot_data'))
            => (op'.ret = "False" /\ analysis_cache' = analysis_cache)]_vars

\* C7 witness: analyze_data failed on an empty run while the cache still held
\* the summary of an earlier, non-empty run.
C7_Witness ==
    /\ op.name = "analyze_data"
    /\ EmptyRun(chatbot_data)
    /\ raised = "ValueError"
    /\ DOMAIN analysis_cache # {}
    /\ analysis_cache.total_batches >= 1

(***************************************************************************)
(* Properties of the trend classifier, checked under SpecTrend.            *)
(***************************************************************************)
\* Least-squares slope of values against the indices 0..k-1, as the pair
\* <<numerator, denominator>> of sum (x - mx)(y - my) / sum (x - mx)^2 with
\* both sums scaled by k*k; the denominator is positive when k >= 2.
CentredSlope(values) ==
    LET k == Len(values)
        sx == SumSeq([i \in 1..k |-> i - 1])
        sy == SumSeq(values)
    IN  <<SumSeq([i \in 1..k |-> (k * (i - 1) - sx) * (k * values[i] - sy)]),
          SumSeq([i \in 1..k |-> (k * (i - 1) - sx) * (k * (i - 1) - sx)])>>

\* C11: a window of fewer than two values has trend Insufficient; otherwise the
\* trend is Rising when the least-squares slope against the sample index is
\* strictly above 0.1, Falling when it is strictly below -0.1, and Plateau in
\* between, a slope of exactly 0.1 or -0.1 included.
C11_TrendBySlope ==
    out.fn = "_analyze_trend" =>
        IF Len(arg.values) < 2 THEN out.str = "Insufficient"
        ELSE LET sl == CentredSlope(arg.values)
             IN  /\ sl[2] > 0
                 /\ out.str = "Rising" <=> 10 * sl[1] > sl[2]
                 /\ out.str = "Falling" <=> 10 * sl[1] < -sl[2]
                 /\ out.str = "Plateau" <=> /\ 10 * sl[1] <= sl[2]
                                            /\ 10 * sl[1] >= -sl[2]
                 /\ arg.values = <<10, 20, 30, 40, 50>> => out.str = "Rising"

\* The slope of <<0, 0, 1, 0>> is exactly 0.1 and the window is a Plateau.
C11_Witness ==
    /\ out.fn = "_analyze_trend"
    /\ arg.values = <<0, 0, 1, 0>>
    /\ 10 * CentredSlope(arg.values)[1] = CentredSlope(arg.values)[2]
    /\ out.str = "Plateau"

(***************************************************************************)
(* Properties of the stability classifier, checked under SpecStability.    *)
(***************************************************************************)
\* std / mean < a / b for a positive mean, in integers: std^2 * b^2 < a^2 * mean^2.
CvBelow(st, a, b) ==
    st.std_sq.n * st.mean.d * st.mean.d * b * b
        < a * a * st.mean.n * st.mean.n * st.std_sq.d

\* C12: with cv = std / mean for a positive mean, stability is VeryStable when
\* cv < 0.05, Stable when 0.05 <= cv < 0.1, Moderate when 0.1 <= cv < 0.2 and
\* Unstable when cv >= 0.2; for a mean of zero or below cv counts as 0 and the
\* batch is VeryStable whatever its standard deviation.
C12_StabilityBands ==
    out.fn = "_analyze_stability" =>
        LET st == arg.statistics
        IN  IF st.mean.n <= 0 THEN out.str = "VeryStable"
            ELSE /\ out.str = "VeryStable" <=> CvBelow(st, 5, 100)
                 /\ out.str = "Stable" <=> ~CvBelow(st, 5, 100) /\ CvBelow(st, 1, 10)
                 /\ out.str = "Moderate" <=> ~CvBelow(st, 1, 10) /\ CvBelow(st, 2, 10)
                 /\ out.str = "Unstable" <=> ~CvBelow(st, 2, 10)

\* A batch of mean 0 and standard deviation 8.5 has been classified VeryStable.
C12_Witness ==
    /\ out.fn = "_analyze_stability"
    /\ arg.statistics.mean = Int2Rat(0)
    /\ arg.statistics.std_sq = Rat(17 * 17, 4)
    /\ out.str = "VeryStable"

(***************************************************************************)
(* Properties of the run summary, checked under SpecChatbot.               *)
(***************************************************************************)
\* The sum of the batch means of results, as <<numerator, denominator>> over
\* the product of the means' denominators.
RECURSIVE MeanSum(_)
MeanSum(results) ==
    IF results = <<>> THEN <<0, 1>>
    ELSE LET m == Head(results).statistics.mean
             r == MeanSum(Tail(results))
         IN  <<m.n * r[2] + r[1] * m.d, m.d * r[2]>>

\* C13: over a non-empty list of B batches the summary's avg_temperature is
\* the sum of the batch means divided by B (every batch weighing the same
\* whatever its record_count), max_temperature is the largest batch max and
\* min_temperature the smallest batch min.
C13_SummaryTemperatures ==
    Aggregated =>
        LET results == chatbot_data.analysis_results
            B == Len(results)
            ms == MeanSum(results)
            avg == analysis_cache.avg_temperature
        IN  /\ B > 0
            /\ avg.n * B * ms[2] = ms[1] * avg.d
            /\ \A i \in 1..B :
                    /\ RatLe(results[i].statistics.max, analysis_cache.max_temperature)
                    /\ RatLe(analysis_cache.min_temperature, results[i].statistics.min)
            /\ \E i \in 1..B :
                    results[i].statistics.max = analysis_cache.max_temperature
            /\ \E i \in 1..B :
                    results[i].statistics.min = analysis_cache.min_temperature

\* A batch of three samples (mean 64) and a batch of two (mean 71) average to
\* 67.5, not to the mean 66.8 of the five samples; the largest max (82) is in
\* the second batch.
C13_Witness ==
    /\ Aggregated
    /\ Len(chatbot_data.analysis_results) = 2
    /\ chatbot_data.analysis_results[1].record_count = 3
    /\ chatbot_data.analysis_results[2].record_count = 2
    /\ analysis_cache.avg_temperature = Rat(135, 2)
    /\ analysis_cache.max_temperature = Int2Rat(82)
    /\ analysis_cache.min_temperature = Int2Rat(60)

\* cache is the summary of the batch list results.
Describes(cache, results) ==
    /\ DOMAIN cache # {}
    /\ cache.total_batches = Len(results)
    /\ cache.critical_batches = SelectSeq(results, IsFlagged)
    /\ results # <<>> =>
            /\ cache.analysis_period.start = results[1].start_timestamp
            /\ cache.analysis_period.end = results[Len(results)].end_timestamp
            /\ cache.avg_temperature.n * Len(results) * MeanSum(results)[2]
                   = MeanSum(results)[1] * cache.avg_temperature.d

\* C14: in every state reached by load operations on the chatbot, successful
\* or failed, analysis_cache is the summary of the batch list now held in
\* chatbot.data; it never describes another batch list, so it is empty while
\* no summarisable batch list is held.
C14_CacheIsDerivedView ==
    IF chatbot_data.kind = "analysis" /\ chatbot_data.analysis_results # <<>>
    THEN Describes(analysis_cache, chatbot_data.analysis_results)
    ELSE DOMAIN analysis_cache = {}

(***************************************************************************)
(* Further properties of the segmenter, checked under Spec.                *)
(***************************************************************************)
\* C15: a call of analyze_temperature_characteristics that repeats the
\* previous call (same loaded samples, same window_size) leaves analyzed_data
\* and the error outcome exactly as the first call left them: the second
\* result replaces the first and is not appended to it.
C15_AnalysisIdempotent ==
    [][(op'.name = "analyze_temperature_characteristics" /\ op'.again)
          => (analyzed_data' = analyzed_data /\ raised' = raised)]_vars

\* A repeated call over loaded samples that left two batches or more.
C15_Witness ==
    /\ Analyzed
    /\ op.again
    /\ raised = "none"
    /\ Len(analyzed_data) >= 2

\* C16: analysing a loaded sequence of zero samples with a positive
\* window_size leaves an empty analyzed_data and raises no error.
C16_EmptyInputNoBatches ==
    (Analyzed /\ Len(data.rows) = 0 /\ op.window_size > 0) =>
        /\ analyzed_data = <<>>
        /\ raised = "none"

\* Zero samples have been analysed with window_size 2.
C16_Witness ==
    /\ Analyzed
    /\ Len(data.rows) = 0
    /\ op.window_size = 2
    /\ analyzed_data = <<>>
    /\ raised = "none"

(***************************************************************************)
(* Further properties of the batch statistics, checked under SpecBatch.    *)
(***************************************************************************)
\* C17: a batch of exactly one sample of value v has mean, median, min and
\* max all equal to v, and std and range equal to 0.
C17_SingleSampleStatistics ==
    \A b \in 1..Len(analyzed_data) :
        analyzed_data[b].record_count = 1 =>
            LET st == analyzed_data[b].statistics
                v == Int2Rat(analyzed_data[b].raw_data[1].value)
            IN  /\ Len(analyzed_data[b].raw_data) = 1
                /\ st.mean = v /\ st.median = v /\ st.min = v /\ st.max = v
                /\ st.std_sq = Int2Rat(0)
                /\ st.range = Int2Rat(0)

\* A last batch holding the single sample -5 behind a full batch.
C17_Witness ==
    /\ Len(analyzed_data) >= 2
    /\ analyzed_data[Len(analyzed_data)].record_count = 1
    /\ analyzed_data[Len(analyzed_data)].raw_data[1].value = -5
    /\ analyzed_data[Len(analyzed_data)].statistics.max = Int2Rat(-5)
    /\ analyzed_data[1].record_count > 1

(***************************************************************************)
(* Independence of the batches, checked under Spec.                        *)
(***************************************************************************)
\* The samples of batch k: positions (k-1)*w + 1 .. min(k*w, N) of rows.
BatchRows(rows, k, w) ==
    SubSeq(rows, (k - 1) * w + 1, IF k * w < Len(rows) THEN k * w ELSE Len(rows))

\* The analyses of the batches as a set, each computed from its own samples
\* alone: what tasks run in any order or interleaving hand to the join.
TaskResults(rows, w) ==
    {AnalyzeWindow(BatchRows(rows, k, w), (k - 1) * w, w) :
        k \in {j \in 1..Len(rows) : (j - 1) * w < Len(rows)}}

Complete(rows) == {i \in 1..Len(rows) : rows[i].timestamp # <<>> /\ rows[i].value # <<>>}

\* C19: when load_data has returned True, the timestamps of the samples held
\* are non-decreasing in sequence order, and the samples are exactly the rows
\* of the input that miss no cell: no row with a missing timestamp or value
\* remains, whatever the order of the rows and the places of the missing cells.
C19_LoadedSortedAndComplete ==
    (op.name = "load_data" /\ op.ret = "True") =>
        /\ ~data.is_none
        /\ \A i \in 1..(Len(data.rows) - 1) :
                data.rows[i].timestamp <= data.rows[i + 1].timestamp
        /\ Len(data.rows) = Cardinality(Complete(arg.rows))
        /\ \A i \in Complete(arg.rows) :
                LET r == [timestamp |-> arg.rows[i].timestamp[1], value |-> arg.rows[i].value[1]]
                IN  Cardinality({j \in 1..Len(data.rows) : data.rows[j] = r})
                      = Cardinality({j \in Complete(arg.rows) : arg.rows[j] = arg.rows[i]})

\* A file of three rows read with timestamps 3, missing, 1 has been loaded as
\* the two samples of timestamps 1 and 3.
C19_Witness ==
    /\ op.name = "load_data"
    /\ op.ret = "True"
    /\ Len(arg.rows) = 3
    /\ arg.rows[1].timestamp = <<3>> /\ arg.rows[1].value = <<60>>
    /\ arg.rows[2].timestamp = <<>>
    /\ arg.rows[3].timestamp = <<1>> /\ arg.rows[3].value = <<60>>
    /\ Len(data.rows) = 2
    /\ data.rows[1].timestamp = 1
    /\ data.rows[2].timestamp = 3

(***************************************************************************)
(* Properties of the saved document, checked under SpecSave.               *)
(***************************************************************************)
\* C20: the document save_to_json writes right after an analysis has
\* metadata.total_batches equal to the number of batch analyses in it and
\* metadata.window_size equal to the window_size that analysis was run with.
C20_EnvelopeMatchesRun ==
    [][(/\ op.name = "analyze_temperature_characteristics"
        /\ raised = "none"
        /\ op'.name = "save_to_json")
          => /\ json_file'.analysis_results = analyzed_data
             /\ json_file'.metadata.total_batches = Len(json_file'.analysis_results)
             /\ json_file'.metadata.window_size = op.window_size]_vars

(***************************************************************************)
(* The run average against the mean of the raw samples, under SpecChatbot. *)
(***************************************************************************)
\* Sum and number of the raw sample values of all batches of results.
RECURSIVE RawSum(_)
RawSum(results) ==
    IF results = <<>> THEN 0
    ELSE SumSeq([i \in 1..Len(Head(results).raw_data) |-> Head(results).raw_data[i].value])
         + RawSum(Tail(results))

RECURSIVE RawCount(_)
RawCount(results) ==
    IF results = <<>> THEN 0 ELSE Len(Head(results).raw_data) + RawCount(Tail(results))

\* Every batch of results holds as many records as the first one.
FullBatches(results) ==
    \A i \in 1..Len(results) : results[i].record_count = results[1].record_count

\* C21: when every batch of the run holds the same number of records (the
\* window size), the summary's avg_temperature equals the mean of all raw
\* samples; in every run, full batches or not, it is the sum of the batch
\* means divided by the number of batches.
C21_AverageIsSampleMeanOnFullRuns ==
    Aggregated =>
        LET results == chatbot_data.analysis_results
            avg == analysis_cache.avg_temperature
            ms == MeanSum(results)
        IN  /\ avg.n * Len(results) * ms[2] = ms[1] * avg.d
            /\ FullBatches(results) =>
                    avg.n * RawCount(results) = RawSum(results) * avg.d

\* Two full batches of two samples with different means (71 and 67.5): the
\* average 69.25 is the mean of the four samples.
C21_Witness ==
    /\ Aggregated
    /\ Len(chatbot_data.analysis_results) = 2
    /\ FullBatches(chatbot_data.analysis_results)
    /\ chatbot_data.analysis_results[1].statistics.mean
          # chatbot_data.analysis_results[2].statistics.mean
    /\ analysis_cache.avg_temperature = Rat(277, 4)
    /\ RawSum(chatbot_data.analysis_results) = 277
    /\ RawCount(chatbot_data.analysis_results) = 4

(***************************************************************************)
(* Invalid window sizes, checked under Spec.                               *)
(***************************************************************************)
\* C22: after a call of analyze_temperature_characteristics with a
\* window_size of zero or below, analyzed_data holds no batch analysis at all,
\* so none computed under the invalid window size.
C22_InvalidWindowNoPartialResult ==
    (op.name = "analyze_temperature_characteristics" /\ op.window_size <= 0) =>
        analyzed_data = <<>>

\* window_size 0 over three loaded samples: ValueError and no batch.
C22_Witness ==
    /\ Analyzed
    /\ op.window_size = 0
    /\ Len(data.rows) = 3
    /\ raised = "ValueError"
    /\ analyzed_data = <<>>

(***************************************************************************)
(* Timestamps of the batches and of the summary, under SpecPipeline.       *)
(***************************************************************************)
\* isoformat strings are compared by the time they stand for.
IsoLe(a, b) == a[2] <= b[2]

\* C23: every batch's start_timestamp is the timestamp of its first sample
\* and its end_timestamp that of its last sample; as load_data hands the
\* samples over sorted, start <= end in every batch and the end of batch k is
\* at most the start of batch k+1; the summary's analysis_period is the start
\* of the first batch and the end of the last, which are the first and the
\* last sample of the run.
C23_TimestampsSpanBatches ==
    /\ (Analyzed /\ op.window_size > 0) =>
            LET w == op.window_size IN
            \A k \in 1..Len(analyzed_data) :
                LET rows == BatchRows(data.rows, k, w)
                    b == analyzed_data[k]
                IN  /\ b.start_timestamp = <<"iso", rows[1].timestamp>>
                    /\ b.end_timestamp = <<"iso", rows[Len(rows)].timestamp>>
                    /\ IsoLe(b.start_timestamp, b.end_timestamp)
                    /\ k < Len(analyzed_data) =>
                            IsoLe(b.end_timestamp, analyzed_data[k + 1].start_timestamp)
    /\ (op.name = "load_json_data" /\ op.ret = "True"
            /\ chatbot_data.kind = "analysis") =>
            LET results == chatbot_data.analysis_results
                period == analysis_cache.analysis_period
            IN  /\ period.start = results[1].start_timestamp
                /\ period.end = results[Len(results)].end_timestamp
                /\ period.start = <<"iso", data.rows[1].timestamp>>
                /\ period.end = <<"iso", data.rows[Len(data.rows)].timestamp>>
                /\ \A i \in 1..Len(data.rows) :
                        /\ IsoLe(period.start, <<"iso", data.rows[i].timestamp>>)
                        /\ IsoLe(<<"iso", data.rows[i].timestamp>>, period.end)

\* A file read in the order 3, 1, 2, 1 was analysed in two batches of two
\* samples (1, 1 and 2, 3), and the summary's period runs from 1 to 3.
C23_Witness ==
    /\ op.name = "load_json_data"
    /\ op.ret = "True"
    /\ [i \in 1..Len(arg.rows) |-> arg.rows[i].timestamp] = <<<<3>>, <<1>>, <<2>>, <<1>>>>
    /\ Len(chatbot_data.analysis_results) = 2
    /\ analysis_cache.analysis_period = [start |-> <<"iso", 1>>, end |-> <<"iso", 3>>]

(***************************************************************************)
(* Agreement of the three aggregations, checked under SpecViews.           *)
(***************************************************************************)
\* t is x written with one decimal: a multiple of 0.1 at most 0.05 from x.
OneDecimalOf(t, x) ==
    /\ (10 * t.n) % t.d = 0
    /\ 20 * Abs(t.n * x.d - x.n * t.d) <= t.d * x.d

\* C24: on one and the same batch list, WaterPumpChatbot.analyze_data and
\* LLMWaterPumpChatbot.analyze_data leave identical summaries (and fail on
\* the same lists), and the report of generate_summary_report prints the
\* summary's average, max and min (to one decimal) and lists the same
\* batches, those of alert Caution or Critical, in the same order as the
\* summary's critical_batches.
C24_AggregationsAgree ==
    /\ (chatbot_data.kind = "analysis" /\ llm_chatbot.data.kind = "analysis") =>
            analysis_cache = llm_chatbot.analysis_cache
    /\ (dashboard.report.kind = "report" /\ DOMAIN analysis_cache # {}) =>
            LET report == dashboard.report
                cb == analysis_cache.critical_batches
            IN  /\ OneDecimalOf(report.avg, analysis_cache.avg_temperature)
                /\ OneDecimalOf(report.max, analysis_cache.max_temperature)
                /\ OneDecimalOf(report.min, analysis_cache.min_temperature)
                /\ Len(report.critical) = Len(cb)
                /\ \A i \in 1..Len(cb) :
                        /\ report.critical[i].batch_id = cb[i].batch_id
                        /\ report.critical[i].alert_level = cb[i].alert_level
                        /\ OneDecimalOf(report.critical[i].mean, cb[i].statistics.mean)

\* The three applications have processed a file of a Caution batch followed
\* by a Critical batch; both summaries are built and the report lists both.
C24_Witness ==
    /\ DOMAIN analysis_cache # {}
    /\ DOMAIN llm_chatbot.analysis_cache # {}
    /\ dashboard.report.kind = "report"
    /\ Len(dashboard.report.critical) = 2
    /\ dashboard.report.critical[1].alert_level = "Caution"
    /\ dashboard.report.critical[2].alert_level = "Critical"
    /\ dashboard.report.avg = Rat(692, 10)

(***************************************************************************)
(* The chatbot session, checked under SpecSession.                         *)
(***************************************************************************)
SummaryKeys ==
    {"total_batches", "avg_temperature", "max_temperature", "min_temperature",
     "alert_counts", "trend_counts", "stability_counts", "critical_batches",
     "analysis_period"}

\* C25: in every state of the session, whatever loads were tried and
\* whichever failed, data_loaded = True implies that chatbot.data holds an
\* analysis document and that analysis_cache holds every summary key, so that
\* get_emergency_alert and the other query handlers find the keys they read
\* and none raises KeyError.
C25_DataLoadedImpliesSummary ==
    data_loaded =>
        /\ chatbot_data.kind = "analysis"
        /\ SummaryKeys \subseteq DOMAIN analysis_cache
        /\ raised # "KeyError"

\* C26: in every summary built by analyze_data the length of
\* critical_batches is alert_counts[Critical] + alert_counts[Caution], and
\* get_emergency_alert returns an emergency response exactly when
\* alert_counts[Critical] > 0; a run whose flagged batches are all Caution
\* raises no emergency.
C26_EmergencyIffCritical ==
    DOMAIN analysis_cache # {} =>
        /\ Len(analysis_cache.critical_batches)
              = analysis_cache.alert_counts["Critical"] + analysis_cache.alert_counts["Caution"]
        /\ out.fn = "get_emergency_alert" =>
              /\ raised = "none"
              /\ out.str = "emergency" <=> analysis_cache.alert_counts["Critical"] > 0
              /\ out.str = "None" <=> analysis_cache.alert_counts["Critical"] = 0

\* A run with one Caution batch and no Critical batch was asked for an
\* emergency and gave none.
C26_Witness ==
    /\ DOMAIN analysis_cache # {}
    /\ out.fn = "get_emergency_alert"
    /\ analysis_cache.alert_counts["Caution"] = 1
    /\ analysis_cache.alert_counts["Critical"] = 0
    /\ Len(analysis_cache.critical_batches) = 1
    /\ out.str = "None"

\* The label's first part is the temperature category c.
HasTempCategory(label, c) ==
    \E v \in {"Stable", "Moderate", "Unstable"} :
        \E r \in {"Constant", "Variable", "Volatile"} :
            label = c \o "_" \o v \o "_" \o r

\* C27: for the batches of a run (statistics of actual samples, so mean <=
\* max), a batch labelled Overheat, which is one of mean >= 85, has alert
\* level Caution or Critical and is in critical_batches of the run's summary;
\* a batch of alert level Normal is labelled Low or Normal.
C27_OverheatIsFlagged ==
    chatbot_data.kind = "analysis" =>
        \A i \in 1..Len(chatbot_data.analysis_results) :
            LET b == chatbot_data.analysis_results[i]
            IN  /\ HasTempCategory(b.value_label, "Overheat")
                      <=> b.statistics.mean.n >= 85 * b.statistics.mean.d
                /\ HasTempCategory(b.value_label, "Overheat") =>
                      /\ b.alert_level \in {"Caution", "Critical"}
                      /\ DOMAIN analysis_cache # {} =>
                            \E j \in 1..Len(analysis_cache.critical_batches) :
                                analysis_cache.critical_batches[j] = b
                /\ b.alert_level = "Normal" =>
                      \/ HasTempCategory(b.value_label, "Low")
                      \/ HasTempCategory(b.value_label, "Normal")

\* Overheat does not imply Critical: a batch of two samples of 85 (mean = max
\* = 85) is labelled Overheat, has alert Caution and is in critical_batches.
C27_Witness ==
    /\ data_loaded
    /\ Len(chatbot_data.analysis_results) = 1
    /\ chatbot_data.analysis_results[1].statistics.mean = Int2Rat(85)
    /\ chatbot_data.analysis_results[1].statistics.max = Int2Rat(85)
    /\ HasTempCategory(chatbot_data.analysis_results[1].value_label, "Overheat")
    /\ chatbot_data.analysis_results[1].alert_level = "Caution"
    /\ Len(analysis_cache.critical_batches) = 1

(***************************************************************************)
(* Monotonicity of the alert level, checked under SpecAlert.               *)
(***************************************************************************)
AlertRank(level) ==
    CASE level = "Normal" -> 0
      [] level = "Watch" -> 1
      [] level = "Caution" -> 2
      [] level = "Critical" -> 3

\* Means and peaks compared against: on each threshold, half a degree above
\* it, and the ends of the range.
AlertGrid ==
    {Rat(k, 2) : k \in {120, 130, 131, 140, 141, 150, 151, 160, 161, 170, 171, 180, 181, 190}}

\* C28: with Normal < Watch < Caution < Critical, statistics whose max and
\* mean are both at least those of other statistics have an alert level at
\* least as high.
C28_AlertMonotone ==
    out.fn = "_determine_alert_level" =>
        \A m \in AlertGrid : \A x \in AlertGrid :
            LET other == [NoStats EXCEPT !.mean = m, !.max = x]
            IN  /\ (RatLe(arg.statistics.mean, m) /\ RatLe(arg.statistics.max, x)) =>
                      AlertRank(out.str) <= AlertRank(_determine_alert_level(other))
                /\ (RatLe(m, arg.statistics.mean) /\ RatLe(x, arg.statistics.max)) =>
                      AlertRank(_determine_alert_level(other)) <= AlertRank(out.str)

\* Mean 65 and max 70.5 have been classified Watch (mean 65, max 70 is Normal,
\* mean 65, max 80.5 is Caution).
C28_Witness ==
    /\ out.fn = "_determine_alert_level"
    /\ arg.statistics.mean = Int2Rat(65)
    /\ arg.statistics.max = Rat(141, 2)
    /\ out.str = "Watch"
    /\ _determine_alert_level([NoStats EXCEPT !.mean = Int2Rat(65), !.max = Int2Rat(70)])
          = "Normal"
    /\ _determine_alert_level([NoStats EXCEPT !.mean = Int2Rat(65), !.max = Rat(161, 2)])
          = "Caution"

(***************************************************************************)
(* Variability against range in the label, checked under SpecSpread.       *)
(***************************************************************************)
\* The label's second part is v and its third part is r.
HasSpreadParts(label, v, r) ==
    \E c \in {"Low", "Normal", "High", "Overheat"} : label = c \o "_" \o v \o "_" \o r

\* C29: the statistics of an actual batch have std <= range / 2, so its label
\* never joins variability Unstable with range category Constant, and a
\* label of variability Moderate or Unstable comes with a range of 4 or more.
C29_VariabilityBoundedByRange ==
    out.fn = "value_label" =>
        LET st == out.statistics
        IN  /\ 4 * st.std_sq.n * st.range.d * st.range.d
                  <= st.range.n * st.range.n * st.std_sq.d
            /\ ~HasSpreadParts(out.str, "Unstable", "Constant")
            /\ \A v \in {"Moderate", "Unstable"} :
                    \A r \in {"Constant", "Variable", "Volatile"} :
                        HasSpreadParts(out.str, v, r) => st.range.n >= 4 * st.range.d

\* The batch 60, 64: std 2 is exactly half the range 4, and the label is
\* Normal_Moderate_Constant.
C29_Witness ==
    /\ out.fn = "value_label"
    /\ arg.values = <<60, 64>>
    /\ out.statistics.std_sq = Int2Rat(4)
    /\ out.statistics.range = Int2Rat(4)
    /\ out.str = "Normal_Moderate_Constant"

(***************************************************************************)
(* Reversal of a window, checked under SpecTrend.                          *)
(***************************************************************************)
Reverse(values) == [i \in 1..Len(values) |-> values[Len(values) + 1 - i]]

Opposite(trend) ==
    CASE trend = "Rising" -> "Falling"
      [] trend = "Falling" -> "Rising"
      [] trend = "Plateau" -> "Plateau"
      [] trend = "Insufficient" -> "Insufficient"

====
